---- MODULE Spec2Model ----
(***************************************************************************)
(* A model of the wordnik client (src/src/lib.rs): the Wordnik struct, the *)
(* Operation enumeration, the Definition record with its serde            *)
(* deserialisation, and the two public calls get_definitions and          *)
(* get_definitions_pretty, stepped through their pipeline                 *)
(* (build url, send, read body, parse, typed deserialisation, retain,     *)
(* group, render).  Strings are TLA+ strings, concatenated with \o.       *)
(***************************************************************************)
EXTENDS Integers, Sequences, FiniteSets, TLC

VARIABLES api_key, entry, pc, op, word, url, reply, body, res, definitions,
          hm_definitions, i, order, s, result

vars == <<api_key, entry, pc, op, word, url, reply, body, res, definitions,
          hm_definitions, i, order, s, result>>

(* The longest response array the service is modelled to send. *)
MaxElems == 3

Range(f) == {f[x] : x \in DOMAIN f}

(***************************************************************************)
(* serde_json::Value, as far as the responses need it.                     *)
(***************************************************************************)
JNull == [kind |-> "null"]
JString(str) == [kind |-> "string", str |-> str]
JNumber(lit) == [kind |-> "number", str |-> lit]
JObject(fields) == [kind |-> "object", fields |-> fields]
JArray(elems) == [kind |-> "array", elems |-> elems]

(***************************************************************************)
(* Result<T, Box<dyn Error>>.  An error is the concrete error type boxed   *)
(* by `?`: reqwest::Error from send()/text(), serde_json::Error from       *)
(* from_str (category Syntax) and from from_value (category Data).         *)
(***************************************************************************)
Ok(v) == [ok |-> TRUE, val |-> v]
Err(e) == [ok |-> FALSE, err |-> e]
ReqwestError == [type |-> "reqwest::Error", category |-> ""]
SerdeSyntaxError == [type |-> "serde_json::Error", category |-> "Syntax"]
SerdeDataError == [type |-> "serde_json::Error", category |-> "Data"]

(***************************************************************************)
(* Operation and its Display implementation.                               *)
(***************************************************************************)
Operation == {"Audio", "Definitions", "Etymologies", "Examples", "Frequency",
              "Hyphenation", "Phrases", "Pronunciations", "RelatedWords",
              "ScrabbleScore", "TopExample"}

OperationFmt(o) ==
  CASE o = "Audio" -> "audio"
    [] o = "Definitions" -> "definitions"
    [] o = "Etymologies" -> "etymologies"
    [] o = "Examples" -> "examples"
    [] o = "Frequency" -> "frequency"
    [] o = "Hyphenation" -> "hyphenation"
    [] o = "Phrases" -> "phrases"
    [] o = "Pronunciations" -> "pronunciations"
    [] o = "RelatedWords" -> "relatedWords"
    [] o = "ScrabbleScore" -> "scrabbleScore"
    [] o = "TopExample" -> "topExample"

(***************************************************************************)
(* Definition: the struct's fields, the JSON key serde reads each from     *)
(* (rename_all = "camelCase", definition renamed to "text"), and the       *)
(* fields that carry #[serde(default)].                                    *)
(***************************************************************************)
DefinitionFields == {"word", "definition", "part_of_speech", "attribution_text",
                     "source_dictionary", "attribution_url", "wordnik_url"}

JsonKey(field) ==
  CASE field = "word" -> "word"
    [] field = "definition" -> "text"
    [] field = "part_of_speech" -> "partOfSpeech"
    [] field = "attribution_text" -> "attributionText"
    [] field = "source_dictionary" -> "sourceDictionary"
    [] field = "attribution_url" -> "attributionUrl"
    [] field = "wordnik_url" -> "wordnikUrl"

HasDefaultTextOnly(field) == field = "definition"

HasDefault(field) == field \in {"definition", "part_of_speech"}

(* One field of the struct read from a JSON object: a present key must hold
   a string, an absent key is the default "" when the field has
   #[serde(default)] and a "missing field" error otherwise. *)
DeserializeField(v, field) ==
  IF JsonKey(field) \in DOMAIN v.fields
    THEN IF v.fields[JsonKey(field)].kind = "string"
           THEN Ok(v.fields[JsonKey(field)].str)
           ELSE Err(SerdeDataError)
    ELSE IF HasDefault(field) THEN Ok("") ELSE Err(SerdeDataError)

(* Definition deserialised from one array element.  Keys the struct does
   not name are ignored.  The modelled elements are objects and scalars; a
   scalar is an "invalid type" error. *)
DeserializeDefinition(v) ==
  IF v.kind # "object" THEN Err(SerdeDataError)
  ELSE IF \E f \in DefinitionFields : ~DeserializeField(v, f).ok
    THEN Err(SerdeDataError)
    ELSE Ok([f \in DefinitionFields |-> DeserializeField(v, f).val])

Deserializable(v) == DeserializeDefinition(v).ok

(* A deserialiser that drops the elements it cannot read. *)
FromValueSkipping(v) ==
  IF v.kind # "array" THEN Err(SerdeDataError)
  ELSE LET good == SelectSeq(v.elems, Deserializable)
       IN Ok([j \in 1..Len(good) |-> DeserializeDefinition(good[j]).val])

(* A deserialiser that reads anything but an array as no definitions. *)
FromValueOrEmpty(v) ==
  IF v.kind # "array" THEN Ok(<<>>)
  ELSE IF \E j \in 1..Len(v.elems) : ~Deserializable(v.elems[j])
    THEN Err(SerdeDataError)
    ELSE Ok([j \in 1..Len(v.elems) |-> DeserializeDefinition(v.elems[j]).val])

(* serde_json::from_value::<Vec<Definition>>: the value must be an array
   and every element must deserialise; the first failure fails the whole. *)
FromValue(v) ==
  IF v.kind # "array" THEN Err(SerdeDataError)
  ELSE IF \E j \in 1..Len(v.elems) : ~Deserializable(v.elems[j])
    THEN Err(SerdeDataError)
    ELSE Ok([j \in 1..Len(v.elems) |-> DeserializeDefinition(v.elems[j]).val])

(* A body is the text the service sent: either the text of a JSON value or
   text that is no JSON. *)
JsonBody(v) == [valid |-> TRUE, value |-> v]
NonJsonBody(raw) == [valid |-> FALSE, raw |-> raw]

FromStrOrNull(b) == IF b.valid THEN Ok(b.value) ELSE Ok(JNull)

(* serde_json::from_str::<Value> *)
FromStr(b) == IF b.valid THEN Ok(b.value) ELSE Err(SerdeSyntaxError)

(***************************************************************************)
(* Definition::to_pretty                                                   *)
(***************************************************************************)
ToPrettyAlwaysCategory(d) == d.part_of_speech \o " " \o d.definition \o "\n"

to_pretty(d) ==
  IF d.part_of_speech = ""
    THEN d.definition \o "\n"
    ELSE d.part_of_speech \o " " \o d.definition \o "\n"

(***************************************************************************)
(* The pieces of get_definitions and get_definitions_pretty.               *)
(***************************************************************************)
BuildUrlNoSlash(e, w, k) ==
  e \o w \o OperationFmt("Definitions") \o "?api_key=" \o k

BuildUrl(e, w, k) ==
  e \o w \o "/" \o OperationFmt("Definitions") \o "?api_key=" \o k

Keep(def) == def.definition # ""

RECURSIVE Reverse(_)
Reverse(q) == IF q = <<>> THEN <<>> ELSE Append(Reverse(Tail(q)), Head(q))

RetainReordering(defs) == Reverse(SelectSeq(defs, Keep))

RetainAll(defs) == defs

(* Vec::retain(|def| def.definition != "") *)
Retain(defs) == SelectSeq(defs, Keep)

HmInsertOverwrite(hm, d) == [k \in DOMAIN hm \cup {d.attribution_text} |->
    IF k = d.attribution_text THEN <<d>> ELSE hm[k]]

(* One iteration of the grouping loop: push onto the key's vector, or
   insert a new one-element vector. *)
HmInsert(hm, d) ==
  IF d.attribution_text \in DOMAIN hm
    THEN [hm EXCEPT ![d.attribution_text] = Append(@, d)]
    ELSE [k \in DOMAIN hm \cup {d.attribution_text} |->
            IF k = d.attribution_text THEN <<d>> ELSE hm[k]]

(* definitions.iter().fold("", |acc, d| [acc, "  * ", d.to_pretty()].join("")) *)
RECURSIVE FoldBullets(_)
FoldBullets(defs) ==
  IF defs = <<>> THEN ""
  ELSE FoldBullets(SubSeq(defs, 1, Len(defs) - 1))
         \o "  * " \o to_pretty(defs[Len(defs)])

RenderGroupSeparatorFirst(acc, k, defs) ==
  IF acc = "" THEN k \o "\n" \o FoldBullets(defs)
  ELSE acc \o "\n" \o k \o "\n" \o FoldBullets(defs)

(* One iteration of the rendering loop. *)
RenderGroup(acc, k, defs) == acc \o k \o "\n" \o FoldBullets(defs) \o "\n"

(***************************************************************************)
(* What the environment supplies: the client's configuration, the words    *)
(* asked for, and the service's replies.                                   *)
(***************************************************************************)
Configs == { [api_key |-> "K", entry |-> "https://api.example.com/v4/word.json/"],
             [api_key |-> "YOUR_API_KEY", entry |-> "https://api.wordnik.com/v4/word.json/"] }

Words == {"hello", "word"}

AllKeys == {JsonKey(f) : f \in DefinitionFields}

Obj(t, p, a) == JObject(
  [k \in AllKeys |->
     CASE k = "word" -> JString("hello")
       [] k = "text" -> JString(t)
       [] k = "partOfSpeech" -> JString(p)
       [] k = "attributionText" -> JString(a)
       [] k = "sourceDictionary" -> JString("wordnet")
       [] k = "attributionUrl" -> JString("https://a.example/")
       [] k = "wordnikUrl" -> JString("https://w.example/hello")])

Lacking(o, key) == JObject([k \in DOMAIN o.fields \ {key} |-> o.fields[k]])

With(o, key, v) == JObject([k \in DOMAIN o.fields \cup {key} |->
                              IF k = key THEN v ELSE o.fields[k]])

Elements ==
  { With(Obj("def1", "noun", "WordNet"), "id", JString("W-1")),
    Obj("def2", "verb", "WordNet"),
    Obj("def3", "", "AHD"),
    Obj("", "noun", "AHD") }
  \cup { Lacking(Obj("def2", "verb", "WordNet"), k) : k \in AllKeys }
  \cup { With(Obj("def2", "verb", "WordNet"), "word", JNumber("7")),
         JString("def") }

RECURSIVE SeqsUpTo(_, _)
SeqsUpTo(S, n) ==
  IF n = 0 THEN {<<>>}
  ELSE LET shorter == SeqsUpTo(S, n - 1)
       IN shorter \cup {Append(q, x) : q \in {r \in shorter : Len(r) = n - 1}, x \in S}

ErrorObject == JObject([k \in {"message"} |-> JString("Invalid authentication credentials")])

Bodies == { NonJsonBody("<html>Bad Gateway</html>"),
            JsonBody(ErrorObject),
            JsonBody(JString("down")) }
          \cup { JsonBody(JArray(q)) : q \in SeqsUpTo(Elements, MaxElems) }

Replies == { [net |-> "send_failed"], [net |-> "text_failed"] }
           \cup { [net |-> "ok", body |-> b] : b \in Bodies }

NoReply == [net |-> "none"]
NoBody == NonJsonBody("")
NoResult == [ok |-> FALSE, err |-> [type |-> "none", category |-> ""]]

(***************************************************************************)
(* The state machine.                                                      *)
(***************************************************************************)
Init ==
  /\ \E c \in Configs : api_key = c.api_key /\ entry = c.entry
  /\ pc = "idle"
  /\ op = "none"
  /\ word = ""
  /\ url = ""
  /\ reply = NoReply
  /\ body = NoBody
  /\ res = JNull
  /\ definitions = <<>>
  /\ hm_definitions = <<>>
  /\ i = 0
  /\ order = <<>>
  /\ s = ""
  /\ result = NoResult

(* A `?` on an error: the call in progress returns it to the caller. *)
Fail(e) ==
  /\ result' = Err(e)
  /\ pc' = "done"

(* get_definitions called: the url is built. *)
GetDefinitions ==
  /\ pc = "idle"
  /\ \E w \in Words :
       /\ word' = w
       /\ url' = BuildUrl(entry, w, api_key)
  /\ op' = "get_definitions"
  /\ pc' = "send"
  /\ UNCHANGED <<api_key, entry, reply, body, res, definitions,
                 hm_definitions, i, order, s, result>>

(* get_definitions_pretty called: it calls get_definitions first. *)
GetDefinitionsPretty ==
  /\ pc = "idle"
  /\ \E w \in Words :
       /\ word' = w
       /\ url' = BuildUrl(entry, w, api_key)
  /\ op' = "get_definitions_pretty"
  /\ pc' = "send"
  /\ UNCHANGED <<api_key, entry, reply, body, res, definitions,
                 hm_definitions, i, order, s, result>>

(* make_request: client.get(url).header(..).send()? *)
Send ==
  /\ pc = "send"
  /\ \E r \in Replies :
       /\ reply' = r
       /\ IF r.net = "send_failed"
            THEN Fail(ReqwestError)
            ELSE pc' = "text" /\ UNCHANGED result
  /\ url' = ""
  /\ UNCHANGED <<api_key, entry, op, word, body, res, definitions,
                 hm_definitions, i, order, s>>

(* make_request: .text()? *)
Text ==
  /\ pc = "text"
  /\ IF reply.net = "text_failed"
       THEN Fail(ReqwestError) /\ UNCHANGED body
       ELSE body' = reply.body /\ pc' = "from_str" /\ UNCHANGED result
  /\ UNCHANGED <<api_key, entry, op, word, url, reply, res, definitions,
                 hm_definitions, i, order, s>>

(* make_request: serde_json::from_str(&res)?, then Ok(res) *)
ParseBody ==
  /\ pc = "from_str"
  /\ IF FromStr(body).ok
       THEN res' = FromStr(body).val /\ pc' = "from_value" /\ UNCHANGED result
       ELSE Fail(FromStr(body).err) /\ UNCHANGED res
  /\ UNCHANGED <<api_key, entry, op, word, url, reply, body, definitions,
                 hm_definitions, i, order, s>>

(* get_definitions: serde_json::from_value(res)? *)
Deserialize ==
  /\ pc = "from_value"
  /\ IF FromValue(res).ok
       THEN definitions' = FromValue(res).val /\ pc' = "retain" /\ UNCHANGED result
       ELSE Fail(FromValue(res).err) /\ UNCHANGED definitions
  /\ UNCHANGED <<api_key, entry, op, word, url, reply, body, res,
                 hm_definitions, i, order, s>>

(* get_definitions: definitions.retain(..); Ok(definitions).  The public
   call returns here; get_definitions_pretty goes on to group. *)
RetainAndReturn ==
  /\ pc = "retain"
  /\ definitions' = Retain(definitions)
  /\ IF op = "get_definitions"
       THEN /\ result' = Ok(Retain(definitions))
            /\ pc' = "done"
            /\ UNCHANGED <<hm_definitions, i>>
       ELSE /\ hm_definitions' = <<>>
            /\ i' = 1
            /\ pc' = "group"
            /\ UNCHANGED result
  /\ UNCHANGED <<api_key, entry, op, word, url, reply, body, res, order, s>>

(* get_definitions_pretty: one iteration of `for i in &definitions`. *)
Group ==
  /\ pc = "group"
  /\ i <= Len(definitions)
  /\ hm_definitions' = HmInsert(hm_definitions, definitions[i])
  /\ i' = i + 1
  /\ UNCHANGED <<api_key, entry, pc, op, word, url, reply, body, res,
                 definitions, order, s, result>>

(* get_definitions_pretty: the grouping loop ends, s = "". *)
StartRender ==
  /\ pc = "group"
  /\ i > Len(definitions)
  /\ s' = ""
  /\ order' = <<>>
  /\ pc' = "render"
  /\ UNCHANGED <<api_key, entry, op, word, url, reply, body, res,
                 definitions, hm_definitions, i, result>>

(* get_definitions_pretty: one iteration of `for .. in hm_definitions.iter()`.
   A HashMap iterates in an arbitrary order: any key not yet visited. *)
Render ==
  /\ pc = "render"
  /\ \E k \in DOMAIN hm_definitions \ Range(order) :
       /\ s' = RenderGroup(s, k, hm_definitions[k])
       /\ order' = Append(order, k)
  /\ UNCHANGED <<api_key, entry, pc, op, word, url, reply, body, res,
                 definitions, hm_definitions, i, result>>

(* get_definitions_pretty: Ok(s) *)
FinishRender ==
  /\ pc = "render"
  /\ DOMAIN hm_definitions \subseteq Range(order)
  /\ result' = Ok(s)
  /\ pc' = "done"
  /\ UNCHANGED <<api_key, entry, op, word, url, reply, body, res,
                 definitions, hm_definitions, i, order, s>>

(* The caller takes the result; the call's locals are dropped. *)
Return ==
  /\ pc = "done"
  /\ pc' = "idle"
  /\ op' = "none"
  /\ word' = ""
  /\ url' = ""
  /\ reply' = NoReply
  /\ body' = NoBody
  /\ res' = JNull
  /\ definitions' = <<>>
  /\ hm_definitions' = <<>>
  /\ i' = 0
  /\ order' = <<>>
  /\ s' = ""
  /\ result' = NoResult
  /\ UNCHANGED <<api_key, entry>>

Next ==
  \/ GetDefinitions
  \/ GetDefinitionsPretty
  \/ Send
  \/ Text
  \/ ParseBody
  \/ Deserialize
  \/ RetainAndReturn
  \/ Group
  \/ StartRender
  \/ Render
  \/ FinishRender
  \/ Return

Spec == Init /\ [][Next]_vars

(***************************************************************************)
(* Vocabulary of the properties, read off the service's reply.             *)
(***************************************************************************)
TransportError == ReqwestError
ParseError == SerdeSyntaxError
DeserializationError == SerdeDataError

Done(o) == pc = "done" /\ op = o
NetOk == reply.net = "ok"
ValidJson == NetOk /\ reply.body.valid
ReplyArray == ValidJson /\ reply.body.value.kind = "array"
RespElems == reply.body.value.elems

RequiredKeys == {"word", "attributionText", "sourceDictionary",
                 "attributionUrl", "wordnikUrl"}
OptionalKeys == {"text", "partOfSpeech"}

(* The string a JSON object holds under a key, absence read as "". *)
JsonStr(o, key) == IF key \in DOMAIN o.fields THEN o.fields[key].str ELSE ""

StringFields(o) ==
  /\ o.kind = "object"
  /\ \A k \in DOMAIN o.fields : o.fields[k].kind = "string"

(* A definition object of the wire contract: every field a string,
   partOfSpeech optional. *)
WellFormedObject(o) ==
  /\ StringFields(o)
  /\ (RequiredKeys \cup {"text"}) \subseteq DOMAIN o.fields

(* An element that matches the shape the Definition struct accepts. *)
MatchesShape(o) ==
  /\ o.kind = "object"
  /\ RequiredKeys \subseteq DOMAIN o.fields
  /\ \A k \in DOMAIN o.fields \cap (RequiredKeys \cup OptionalKeys) :
       o.fields[k].kind = "string"

NonEmptyText(o) == JsonStr(o, "text") # ""

RecordOf(o) ==
  [word |-> JsonStr(o, "word"),
   definition |-> JsonStr(o, "text"),
   part_of_speech |-> JsonStr(o, "partOfSpeech"),
   attribution_text |-> JsonStr(o, "attributionText"),
   source_dictionary |-> JsonStr(o, "sourceDictionary"),
   attribution_url |-> JsonStr(o, "attributionUrl"),
   wordnik_url |-> JsonStr(o, "wordnikUrl")]

GoodReply == ReplyArray /\ \A j \in 1..Len(RespElems) : MatchesShape(RespElems[j])

RECURSIVE ConcatAll(_)
ConcatAll(q) == IF q = <<>> THEN "" ELSE Head(q) \o ConcatAll(Tail(q))

RECURSIVE JoinWith(_, _)
JoinWith(q, sep) ==
  IF q = <<>> THEN ""
  ELSE IF Len(q) = 1 THEN q[1]
  ELSE q[1] \o sep \o JoinWith(Tail(q), sep)

NoDuplicates(q) == \A a, b \in 1..Len(q) : a # b => q[a] # q[b]

(***************************************************************************)
(* C1: for every well-formed success response, get_definitions succeeds;   *)
(* the list's length is the number of elements with non-empty text, no     *)
(* record has an empty definition, and each record's fields are the        *)
(* corresponding JSON object's fields.                                     *)
(***************************************************************************)
C1_WellFormed == ReplyArray /\ \A j \in 1..Len(RespElems) : WellFormedObject(RespElems[j])

C1_FilteredFields ==
  (Done("get_definitions") /\ C1_WellFormed) =>
    /\ result.ok
    /\ Len(result.val) = Cardinality({j \in 1..Len(RespElems) : NonEmptyText(RespElems[j])})
    /\ \A j \in 1..Len(result.val) : result.val[j].definition # ""
    /\ \A j \in 1..Len(result.val) :
         result.val[j] = RecordOf(SelectSeq(RespElems, NonEmptyText)[j])

C1_Witness ==
  /\ Done("get_definitions") /\ C1_WellFormed
  /\ Len(RespElems) = 3
  /\ result.ok /\ Len(result.val) = 2
  /\ result.val[1].definition = "def1" /\ result.val[1].wordnik_url = "https://w.example/hello"

(***************************************************************************)
(* C2: when the response is a valid JSON object that is not an array,      *)
(* make_request succeeds with that value as generic JSON, and              *)
(* get_definitions fails with a DeserializationError (no list, in          *)
(* particular no empty list).                                              *)
(***************************************************************************)
C2_ObjectReply == ValidJson /\ reply.body.value.kind = "object"

C2_ObjectIsDeserializationError ==
  C2_ObjectReply =>
    /\ pc \notin {"send", "text", "from_str"} => res = reply.body.value
    /\ Done("get_definitions") => result = Err(DeserializationError)
    /\ pc = "done" => ~result.ok

C2_Witness ==
  /\ Done("get_definitions")
  /\ C2_ObjectReply
  /\ reply.body = JsonBody(ErrorObject)
  /\ res = ErrorObject
  /\ result = Err(DeserializationError)

(***************************************************************************)
(* C3 as stated: an array whose elements each lack any one of the seven    *)
(* fields deserialises, the absent field read as "".                       *)
(***************************************************************************)
C3_LacksAtMostOne(o) ==
  /\ StringFields(o)
  /\ Cardinality(AllKeys \ DOMAIN o.fields) <= 1

C3_AnyAbsenceSucceeds ==
  (Done("get_definitions") /\ ReplyArray
     /\ \A j \in 1..Len(RespElems) : C3_LacksAtMostOne(RespElems[j]))
    => result.ok

(***************************************************************************)
(* C3 amended: an absent text or partOfSpeech is read as the empty string  *)
(* and deserialisation succeeds; an element lacking word, attributionText, *)
(* sourceDictionary, attributionUrl or wordnikUrl fails the call with a    *)
(* DeserializationError.                                                   *)
(***************************************************************************)
C3_OnlyTextAndPartOfSpeechDefault ==
  (ReplyArray /\ \A j \in 1..Len(RespElems) : C3_LacksAtMostOne(RespElems[j])) =>
    /\ (pc = "retain" => 
          /\ Len(definitions) = Len(RespElems)
          /\ \A j \in 1..Len(RespElems) : definitions[j] = RecordOf(RespElems[j]))
    /\ (pc = "done" /\ (\A j \in 1..Len(RespElems) :
                          RequiredKeys \subseteq DOMAIN RespElems[j].fields)
          => result.ok)
    /\ (pc = "done" /\ (\E j \in 1..Len(RespElems) :
                          ~(RequiredKeys \subseteq DOMAIN RespElems[j].fields))
          => result = Err(DeserializationError))

C3_Witness ==
  /\ pc = "retain"
  /\ ReplyArray
  /\ \E a, b \in 1..Len(RespElems) :
       /\ "text" \notin DOMAIN RespElems[a].fields
       /\ "partOfSpeech" \notin DOMAIN RespElems[b].fields
       /\ definitions[a].definition = ""
       /\ definitions[b].part_of_speech = ""
       /\ definitions[b].definition = "def2"

(***************************************************************************)
(* C4: get_definitions_pretty groups by attribution_text: each distinct    *)
(* attribution text of the returned definitions is a header exactly once,  *)
(* immediately followed by one bullet per definition with that attribution *)
(* text, in response order.                                                *)
(***************************************************************************)
C4_Group(k) ==
  k \o "\n"
    \o FoldBullets(SelectSeq(definitions, LAMBDA d : d.attribution_text = k))
    \o "\n"

C4_GroupedByAttribution ==
  (Done("get_definitions_pretty") /\ result.ok) =>
    /\ NoDuplicates(order)
    /\ Range(order) = {definitions[j].attribution_text : j \in 1..Len(definitions)}
    /\ result.val = ConcatAll([j \in 1..Len(order) |-> C4_Group(order[j])])

C4_Witness ==
  /\ Done("get_definitions_pretty") /\ result.ok
  /\ Len(definitions) = 3
  /\ definitions[1].attribution_text = "WordNet"
  /\ definitions[2].attribution_text = "AHD"
  /\ definitions[3].attribution_text = "WordNet"
  /\ result.val = "WordNet\n  * noun def1\n  * verb def2\n\nAHD\n  * def3\n\n"

(***************************************************************************)
(* C5: every bullet is "  * " followed by "<partOfSpeech> <text>\n" when   *)
(* partOfSpeech is non-empty and by exactly "<text>\n" when it is empty.   *)
(***************************************************************************)
C5_Bullet(d) ==
  IF d.part_of_speech # ""
    THEN "  * " \o d.part_of_speech \o " " \o d.definition \o "\n"
    ELSE "  * " \o d.definition \o "\n"

C5_Rendered(k) ==
  k \o "\n"
    \o ConcatAll([m \in 1..Len(hm_definitions[k]) |-> C5_Bullet(hm_definitions[k][m])])
    \o "\n"

C5_BulletFormat ==
  (op = "get_definitions_pretty" /\ pc \in {"render", "done"}) =>
    /\ s = ConcatAll([j \in 1..Len(order) |-> C5_Rendered(order[j])])
    /\ (pc = "done" /\ result.ok) => result.val = s

C5_Witness ==
  /\ Done("get_definitions_pretty") /\ result.ok
  /\ result.val = "AHD\n  * def3\n\nWordNet\n  * verb def2\n\n"

(***************************************************************************)
(* C6: the url requested is exactly                                        *)
(* base + word + "/" + "definitions" + "?api_key=" + key.                  *)
(***************************************************************************)
C6_UrlExact ==
  pc = "send" =>
    /\ url = entry \o word \o "/definitions?api_key=" \o api_key
    /\ (entry = "https://api.example.com/v4/word.json/" /\ word = "hello" /\ api_key = "K")
         => url = "https://api.example.com/v4/word.json/hello/definitions?api_key=K"

C6_Witness ==
  /\ pc = "send"
  /\ word = "hello"
  /\ url = "https://api.example.com/v4/word.json/hello/definitions?api_key=K"

(***************************************************************************)
(* C7: no partial results: when the transport fails, the body is no JSON,  *)
(* or the JSON is not an array of Definition-shaped elements (even if only *)
(* some elements are malformed), get_definitions returns an error and no   *)
(* list, and get_definitions_pretty returns that failure and no string.    *)
(***************************************************************************)
C7_NoPartialResults ==
  (pc = "done" /\ ~GoodReply) =>
    /\ ~result.ok
    /\ "val" \notin DOMAIN result
    /\ s = ""
    /\ op = "get_definitions_pretty" =>
         result = Err(IF ~NetOk THEN TransportError
                      ELSE IF ~ValidJson THEN ParseError
                      ELSE DeserializationError)

C7_Witness ==
  /\ Done("get_definitions")
  /\ ReplyArray /\ Len(RespElems) = 3
  /\ MatchesShape(RespElems[1]) /\ NonEmptyText(RespElems[1])
  /\ MatchesShape(RespElems[2]) /\ NonEmptyText(RespElems[2])
  /\ ~MatchesShape(RespElems[3])
  /\ ~result.ok

(***************************************************************************)
(* C8: a failing call returns one failure value whose kind is that of the  *)
(* first failing stage: TransportError (fetch), ParseError (body is not    *)
(* JSON), DeserializationError (JSON of the wrong shape); the three kinds  *)
(* are distinguishable.                                                    *)
(***************************************************************************)
C8_ErrorKinds ==
  /\ TransportError # ParseError
  /\ TransportError # DeserializationError
  /\ ParseError # DeserializationError
  /\ pc = "done" =>
       /\ result.ok <=> GoodReply
       /\ ~NetOk => result = Err(TransportError)
       /\ (NetOk /\ ~ValidJson) => result = Err(ParseError)
       /\ (ValidJson /\ ~GoodReply) => result = Err(DeserializationError)

C8_Witness ==
  /\ pc = "done"
  /\ NetOk /\ ~reply.body.valid
  /\ result = Err(ParseError)

(***************************************************************************)
(* C9: the list get_definitions returns is the in-order subsequence of the *)
(* response's non-empty-text elements: nothing reordered or duplicated.    *)
(***************************************************************************)
C9_OrderPreserved ==
  (Done("get_definitions") /\ GoodReply) =>
    /\ result.ok
    /\ \E f \in [1..Len(result.val) -> 1..Len(RespElems)] :
         /\ \A a, b \in 1..Len(result.val) : a < b => f[a] < f[b]
         /\ \A a \in 1..Len(result.val) : result.val[a] = RecordOf(RespElems[f[a]])
         /\ {f[a] : a \in 1..Len(result.val)}
              = {j \in 1..Len(RespElems) : NonEmptyText(RespElems[j])}

C9_Witness ==
  /\ Done("get_definitions") /\ GoodReply
  /\ Len(RespElems) = 3
  /\ NonEmptyText(RespElems[1]) /\ ~NonEmptyText(RespElems[2]) /\ NonEmptyText(RespElems[3])
  /\ RespElems[1] # RespElems[3]
  /\ result.ok /\ Len(result.val) = 2
  /\ result.val[1] = RecordOf(RespElems[1])
  /\ result.val[2] = RecordOf(RespElems[3])

(***************************************************************************)
(* C10 as stated: the groups are joined with a blank line between adjacent *)
(* groups and only there: n groups carry n-1 blank lines, none after the   *)
(* last group.                                                             *)
(***************************************************************************)
C10_GroupBody(k) == k \o "\n" \o FoldBullets(hm_definitions[k])

C10_BlankLineOnlyBetween ==
  (Done("get_definitions_pretty") /\ result.ok) =>
    result.val = JoinWith([j \in 1..Len(order) |-> C10_GroupBody(order[j])], "\n")

(***************************************************************************)
(* C10 amended: every group, the last one included, is followed by a blank *)
(* line: n groups carry n blank lines, and a non-empty output ends with    *)
(* one.                                                                    *)
(***************************************************************************)
C10_BlankLineAfterEveryGroup ==
  (Done("get_definitions_pretty") /\ result.ok) =>
    /\ result.val = ConcatAll([j \in 1..Len(order) |-> C10_GroupBody(order[j]) \o "\n"])
    /\ Len(result.val) = Len(JoinWith([j \in 1..Len(order) |-> C10_GroupBody(order[j])], ""))
                           + Len(order)
    /\ Len(order) = Cardinality(DOMAIN hm_definitions)

C10_Witness ==
  /\ Done("get_definitions_pretty") /\ result.ok
  /\ Len(order) = 1
  /\ result.val = "WordNet\n  * noun def1\n\n"

====
